---- MODULE Spec2Model ----
(***************************************************************************)
(* State-machine model of src/asbestos_monitoring_system.py: one           *)
(* AsbestosMonitoringSystem instance and the calls of real_time_monitoring *)
(* made on it, one action per statement (or group of statements) of the    *)
(* method, with the exceptions each statement can raise.                   *)
(*                                                                         *)
(* Units.  Concentrations are integers in units of 1e-6 f/cc, so the       *)
(* source's 0.01 is 10000, 0.1 is 100000 and 0.2 is 200000; only the order *)
(* of a sample and the two thresholds matters to the code.  Times are      *)
(* integer seconds of the wall clock that both time.time() and             *)
(* datetime.datetime.now() read; the clock is always at least 1, so a      *)
(* timestamp never equals the seed entry 0 of self.timestamps.  A program  *)
(* counter value "Lnn" is line nn of the source file.                      *)
(*                                                                         *)
(* Environment.  Line 108 stands in for the sensor ("Simulate sensor       *)
(* reading"); the model takes the sample as an input, which Samples lets   *)
(* be negative as a mock or a hardware sensor may return it, and           *)
(* SamplesInRange marks the runs whose samples np.random.uniform(0, 0.2)   *)
(* can return.  The file uses time.time() and never imports time:          *)
(* timeDefined says whether the name is bound when the method runs (by     *)
(* whoever loads the module); when it is not, line 88 raises NameError.    *)
(* KeyboardInterrupt can arrive before any statement, and the calls to the *)
(* sensor, the database and the plot can raise.                            *)
(***************************************************************************)
EXTENDS Integers, Sequences, FiniteSets, TLC

VARIABLES
    pc,            \* position in real_time_monitoring; "idle" before the first call
    timeDefined,   \* whether the module global `time` is bound (the file has no `import time`)
    clock,         \* the wall clock, in seconds
    calls,         \* calls of real_time_monitoring made on the instance
    duration_minutes, start_time, end_time,      \* arguments and locals of the call
    concentration, risk_level, current_time,     \* locals of the loop body
    readings, timestamps,                        \* self.readings, self.timestamps
    dbOpen, dbRows, dbPending,                   \* self.db_connection and table asbestos_readings
    figOpen, ani,                                \* the pyplot figure, self.ani
    files,         \* the CSV files written so far, each the sequence of its rows
    stdout,        \* what the current call has printed, one tuple per line
    pending,       \* exception waiting to propagate once the finally block ends
    exitPath,      \* how the current call left the try body
    faultSite,     \* the statement whose exception ended the try body
    exportCalls, closeCalls, pltCloseCalls,      \* per call: invocations counted
    nticks, negTicks,                            \* per call: loop bodies entered, negative samples
    base, written, \* per call: len(self.readings) when it began, CSV files it wrote
    raises,        \* per call: the exceptions raised, in order
    view,          \* the plot: x and y limits of self.ax, data of self.line
    plotAt,        \* per call: the positions at which update_plot has run
    steps,         \* the steps the current tick has taken, in order
    tbase,         \* per call: len(self.timestamps) when it began
    durationInput  \* what main() read as the duration; None for a direct call

vars == <<pc, timeDefined, clock, calls, duration_minutes, start_time,
          end_time, concentration, risk_level, current_time, readings,
          timestamps, dbOpen, dbRows, dbPending, figOpen, ani, files, stdout,
          pending, exitPath, faultSite, exportCalls, closeCalls, pltCloseCalls,
          nticks, negTicks, base, written, raises, view, plotAt, steps,
          tbase, durationInput>>

(***************************************************************************)
(* Program constants                                                       *)
(***************************************************************************)
MediumThreshold == 10000
HighThreshold == 100000
TickPeriod == 5
SecondsPerMinute == 60
SensorLow == 0
SensorHigh == 200000
InitialYTop == 150000
InitialXRight == 60
ViewWindow == 60
ViewMargin == 5
DefaultDuration == 60
location == "site"

(***************************************************************************)
(* Bounds and inputs                                                       *)
(***************************************************************************)
MaxReadings == 2
MaxCalls == 2
ClockStart == 10
PauseOverrun == 60
ClockSetBack == 5

\* what the sensor collaborator may return: -0.01, 0.02 and 0.15 f/cc, a
\* negative value and one value of each tier
Samples == {0 - 10000, 20000, 150000}
Durations == {0 - 1, 0, 1}
\* by how much the wall clock differs across plt.pause(5): the tick period,
\* more (a slow redraw, a suspended machine), or less than nothing when the
\* clock was set back meanwhile (a clock correction, the end of daylight
\* saving time for the local time datetime.now() returns)
PauseAdvances == {TickPeriod, PauseOverrun, 0 - ClockSetBack}

\* what the operator types at the duration prompt of main(): nothing, a
\* text that is no number, zero, a negative and a positive number
DurationInputs == {<<>>, <<"a">>, <<"0">>, <<"-", "1">>, <<"1">>}
\* the mock sensor of the 12-tick scenario
Scenario == <<5000, 20000, 150000, 5000, 0 - 10000, 80000,
              5000, 20000, 150000, 5000, 20000, 80000>>
\* inputs of calculate_risk_level around both thresholds
TestConcentrations ==
    (0 - 3) .. 20
    \cup (MediumThreshold - 20) .. (MediumThreshold + 20)
    \cup (HighThreshold - 20) .. (HighThreshold + 20)
    \cup {2 * HighThreshold}

None == "None"

(***************************************************************************)
(* Pure functions                                                          *)
(***************************************************************************)
calculate_risk_level_inclusive(c) ==
    IF c <= MediumThreshold THEN "Low"
    ELSE IF c <= HighThreshold THEN "Medium"
    ELSE "High"

calculate_risk_level(c) ==
    IF c < MediumThreshold THEN "Low"
    ELSE IF c < HighThreshold THEN "Medium"
    ELSE "High"

\* list[1:]
Slice1(s) == IF Len(s) = 0 THEN <<>> ELSE Tail(s)

\* max(a, b) and max(list) of Python
Max2(a, b) == IF a >= b THEN a ELSE b
MaxOfList(s) == CHOOSE x \in {s[i] : i \in 1..Len(s)} :
                    \A i \in 1..Len(s) : x >= s[i]

\* int(text) of Python on the characters main() can be given: an optional
\* sign, then one or more decimal digits; anything else is a ValueError
DigitValue ==
    ("0" :> 0) @@ ("1" :> 1) @@ ("2" :> 2) @@ ("3" :> 3) @@ ("4" :> 4) @@
    ("5" :> 5) @@ ("6" :> 6) @@ ("7" :> 7) @@ ("8" :> 8) @@ ("9" :> 9)
IsDigits(s) == Len(s) >= 1 /\ \A i \in 1..Len(s) : s[i] \in DOMAIN DigitValue
IsIntegerText(s) ==
    /\ Len(s) >= 1
    /\ IF s[1] \in {"-", "+"} THEN IsDigits(Tail(s)) ELSE IsDigits(s)
RECURSIVE DigitsValue(_)
DigitsValue(s) ==
    IF Len(s) = 0 THEN 0
    ELSE 10 * DigitsValue(SubSeq(s, 1, Len(s) - 1)) + DigitValue[s[Len(s)]]
int(s) ==
    IF s[1] = "-" THEN 0 - DigitsValue(Tail(s))
    ELSE IF s[1] = "+" THEN DigitsValue(Tail(s))
    ELSE DigitsValue(s)

\* line 165: input(...) or "60"
InputOrDefault(s) == IF s = <<>> THEN <<"6", "0">> ELSE s

\* pd.DataFrame of export_to_csv raises ValueError unless its four columns
\* have one length
FrameOk == Len(Slice1(timestamps)) = Len(Slice1(readings))

\* the rows df.to_csv writes
ExportRows ==
    [i \in 1 .. Len(Slice1(timestamps)) |->
        << Slice1(timestamps)[i], location, Slice1(readings)[i],
           calculate_risk_level(Slice1(readings)[i]) >>]

(***************************************************************************)
(* __init__ (lines 9-33): the state of a constructed instance              *)
(***************************************************************************)
Init ==
    /\ pc = "idle"
    /\ timeDefined \in BOOLEAN
    /\ clock = ClockStart
    /\ calls = 0
    /\ duration_minutes = None /\ start_time = None /\ end_time = None
    /\ concentration = None /\ risk_level = None /\ current_time = None
    /\ readings = <<0>>
    /\ timestamps = <<0>>
    /\ dbOpen = TRUE /\ dbRows = <<>> /\ dbPending = <<>>
    /\ figOpen = TRUE /\ ani = None
    /\ files = <<>>
    /\ stdout = <<>>
    /\ pending = None
    /\ exitPath = None
    /\ faultSite = None
    /\ exportCalls = 0 /\ closeCalls = 0 /\ pltCloseCalls = 0
    /\ nticks = 0 /\ negTicks = 0
    /\ base = 1 /\ written = 0 /\ raises = <<>>
    /\ view = [xlim |-> <<0, InitialXRight>>, ylim |-> <<0, InitialYTop>>,
               line |-> << <<0>>, <<0>> >>]
    /\ plotAt = {} /\ steps = <<>> /\ tbase = 1 /\ durationInput = None

SetupPcs == {"L88", "L92", "L102"}
TryPcs == {"L106", "L108", "L109", "L110", "L113", "L114", "L117", "L128",
           "L131", "L140"}
HandlerPcs == {"L143", "L145"}
FinallyPcs == {"L148", "L149", "L152", "L153", "L154"}
\* statements of the try body that call a collaborator: the sensor, the
\* database (execute, commit) and the plot surface
FaultPcs == {"L108", "L117", "L128", "L140"}
Running == pc \in SetupPcs \cup TryPcs \cup HandlerPcs \cup FinallyPcs

Instance == <<readings, timestamps, dbOpen, dbRows, dbPending, figOpen, ani, files>>
Env == <<timeDefined, clock>>
Args == <<duration_minutes, start_time, end_time>>
Locals == <<concentration, risk_level, current_time>>
Ghost == <<pending, exitPath, faultSite, exportCalls, closeCalls,
           pltCloseCalls, nticks, negTicks>>
Marks == <<base, written, raises>>
Aux == <<view, plotAt, tbase, durationInput>>

(***************************************************************************)
(* real_time_monitoring(location, duration_minutes), lines 84-154          *)
(***************************************************************************)
\* lines 84-86: the call and its two banner lines
real_time_monitoring(d, typed, printed) ==
    /\ pc \in {"idle", "returned", "raised"}
    /\ calls < MaxCalls
    /\ calls' = calls + 1
    /\ pc' = "L88"
    /\ duration_minutes' = d
    /\ start_time' = None /\ end_time' = None
    /\ concentration' = None /\ risk_level' = None /\ current_time' = None
    /\ stdout' = printed \o << <<"Starting real-time monitoring">>,
                                <<"Press Ctrl+C to stop monitoring">> >>
    /\ pending' = None /\ exitPath' = None /\ faultSite' = None
    /\ exportCalls' = 0 /\ closeCalls' = 0 /\ pltCloseCalls' = 0
    /\ nticks' = 0 /\ negTicks' = 0
    /\ base' = Len(readings) /\ written' = 0 /\ raises' = <<>>
    /\ plotAt' = {} /\ steps' = <<>> /\ tbase' = Len(timestamps)
    /\ durationInput' = typed
    /\ UNCHANGED <<view, Instance, Env>>

\* a direct call of real_time_monitoring(location, d), on a new or a used
\* instance
Call(d) == real_time_monitoring(d, None, <<>>)

\* lines 156-171: main() builds the instance, reads the duration and makes
\* the one call of the program; only a ValueError of int() is replaced by
\* the default
main(typed) ==
    /\ calls = 0
    /\ real_time_monitoring(
           IF IsIntegerText(InputOrDefault(typed))
               THEN int(InputOrDefault(typed))
               ELSE DefaultDuration,
           typed,
           IF IsIntegerText(InputOrDefault(typed))
               THEN <<>>
               ELSE << <<"Invalid duration. Using default 60 minutes.">> >>)

\* lines 88-89: time.time() raises NameError when the name is unbound
StartTime ==
    /\ pc = "L88"
    /\ IF timeDefined
       THEN /\ pc' = "L92"
            /\ start_time' = clock
            /\ end_time' = clock + duration_minutes * SecondsPerMinute
            /\ UNCHANGED <<pending, exitPath, raises>>
       ELSE /\ pc' = "raised"
            /\ pending' = "NameError"
            /\ raises' = Append(raises, "NameError")
            /\ exitPath' = "setup"
            /\ UNCHANGED <<start_time, end_time>>
    /\ UNCHANGED <<Aux, steps, Instance, Env, Locals, base, written, calls, duration_minutes,
                   stdout, faultSite, exportCalls, closeCalls, pltCloseCalls,
                   nticks, negTicks>>

\* lines 92-100: frame_count and the FuncAnimation
CreateAnimation ==
    /\ pc = "L92"
    /\ pc' = "L102"
    /\ ani' = [frames |-> (duration_minutes * SecondsPerMinute) \div TickPeriod,
               interval |-> 1000 * TickPeriod]
    /\ UNCHANGED <<Aux, steps, readings, timestamps, dbOpen, dbRows, dbPending, figOpen,
                   files, Env, Args, Marks, Locals, Ghost, calls, stdout>>

\* lines 102-103: plt.show(block=False); plt.pause(0.1)
ShowWindow ==
    /\ pc = "L102"
    /\ pc' = "L106"
    /\ UNCHANGED <<Aux, steps, Instance, Env, Args, Marks, Locals, Ghost, calls, stdout>>

\* line 106 as while time.time() <= end_time: one more tick when the clock
\* is exactly at end_time
LoopTest_Inclusive ==
    /\ pc = "L106"
    /\ IF clock <= end_time
       THEN /\ pc' = "L108"
            /\ nticks' = nticks + 1
            /\ steps' = <<>>
            /\ UNCHANGED exitPath
       ELSE /\ pc' = "L148"
            /\ exitPath' = "timeout"
            /\ UNCHANGED <<nticks, steps>>
    /\ UNCHANGED <<Aux, Instance, Env, Args, Marks, Locals, calls, stdout, pending,
                   faultSite, exportCalls, closeCalls, pltCloseCalls, negTicks>>

\* line 106: while time.time() < end_time
LoopTest ==
    /\ pc = "L106"
    /\ IF clock < end_time
       THEN /\ pc' = "L108"
            /\ nticks' = nticks + 1
            /\ steps' = <<>>
            /\ UNCHANGED exitPath
       ELSE /\ pc' = "L148"
            /\ exitPath' = "timeout"
            /\ UNCHANGED <<nticks, steps>>
    /\ UNCHANGED <<Aux, Instance, Env, Args, Marks, Locals, calls, stdout, pending,
                   faultSite, exportCalls, closeCalls, pltCloseCalls, negTicks>>

\* line 108: the sensor reading
Sample(c) ==
    /\ pc = "L108"
    /\ pc' = "L109"
    /\ concentration' = c
    /\ negTicks' = IF c < 0 THEN negTicks + 1 ELSE negTicks
    /\ steps' = Append(steps, "sample")
    /\ UNCHANGED <<Aux, Instance, Env, Args, Marks, risk_level, current_time, calls,
                   stdout, pending, exitPath, faultSite, exportCalls,
                   closeCalls, pltCloseCalls, nticks>>

\* line 109 guarded so that the tier is computed on the first tick only and
\* kept for the later ones
Classify_FirstTickOnly ==
    /\ pc = "L109"
    /\ risk_level' = IF risk_level = None
                         THEN calculate_risk_level(concentration)
                         ELSE risk_level
    /\ pc' = "L110"
    /\ steps' = Append(steps, "classify")
    /\ UNCHANGED <<Aux, Instance, Env, Args, Marks, concentration, current_time, calls,
                   stdout, Ghost>>

\* line 109
Classify ==
    /\ pc = "L109"
    /\ pc' = "L110"
    /\ risk_level' = calculate_risk_level(concentration)
    /\ steps' = Append(steps, "classify")
    /\ UNCHANGED <<Aux, Instance, Env, Args, Marks, concentration, current_time, calls,
                   stdout, Ghost>>

\* line 110: datetime.datetime.now()
ReadNow ==
    /\ pc = "L110"
    /\ pc' = "L113"
    /\ current_time' = clock
    /\ steps' = Append(steps, "now")
    /\ UNCHANGED <<Aux, Instance, Env, Args, Marks, concentration, risk_level, calls,
                   stdout, Ghost>>

\* line 113 as self.readings.insert(1, concentration): the newest reading
\* goes in front of the earlier ones
AppendReading_InFront ==
    /\ pc = "L113"
    /\ readings' = <<readings[1], concentration>> \o Tail(readings)
    /\ pc' = "L114"
    /\ steps' = Append(steps, "append_reading")
    /\ UNCHANGED <<Aux, timestamps, dbOpen, dbRows, dbPending, figOpen, ani, files,
                   Env, Args, Marks, Locals, calls, stdout, Ghost>>

\* line 113
AppendReading ==
    /\ pc = "L113"
    /\ readings' = Append(readings, concentration)
    /\ pc' = "L114"
    /\ steps' = Append(steps, "append_reading")
    /\ UNCHANGED <<Aux, timestamps, dbOpen, dbRows, dbPending, figOpen, ani, files,
                   Env, Args, Marks, Locals, calls, stdout, Ghost>>

\* line 114
AppendTimestamp ==
    /\ pc = "L114"
    /\ timestamps' = Append(timestamps, current_time)
    /\ pc' = "L117"
    /\ steps' = Append(steps, "append_timestamp")
    /\ UNCHANGED <<Aux, readings, dbOpen, dbRows, dbPending, figOpen, ani, files,
                   Env, Args, Marks, Locals, calls, stdout, Ghost>>

\* lines 117-127: cursor() and the INSERT; on a closed connection cursor()
\* raises sqlite3.ProgrammingError, an Exception
Insert ==
    /\ pc = "L117"
    /\ IF dbOpen
       THEN /\ dbPending' = Append(dbPending,
                   <<current_time, location, concentration, risk_level>>)
            /\ pc' = "L128"
            /\ steps' = Append(steps, "insert")
            /\ UNCHANGED <<exitPath, faultSite, raises>>
       ELSE /\ pc' = "L145"
            /\ exitPath' = "fault"
            /\ faultSite' = "L117"
            /\ raises' = Append(raises, "ProgrammingError")
            /\ UNCHANGED <<dbPending, steps>>
    /\ UNCHANGED <<Aux, readings, timestamps, dbOpen, dbRows, figOpen, ani, files,
                   Env, Args, base, written, Locals, calls, stdout, pending, exportCalls,
                   closeCalls, pltCloseCalls, nticks, negTicks>>

\* line 128 left out: the INSERT of the tick is never committed
Commit_Missing ==
    /\ pc = "L128"
    /\ UNCHANGED <<dbRows, dbPending>>
    /\ pc' = "L131"
    /\ steps' = Append(steps, "commit")
    /\ UNCHANGED <<Aux, readings, timestamps, dbOpen, figOpen, ani, files, Env,
                   Args, Marks, Locals, calls, stdout, Ghost>>

\* line 128
Commit ==
    /\ pc = "L128"
    /\ dbRows' = dbRows \o dbPending
    /\ dbPending' = <<>>
    /\ pc' = "L131"
    /\ steps' = Append(steps, "commit")
    /\ UNCHANGED <<Aux, readings, timestamps, dbOpen, figOpen, ani, files, Env,
                   Args, Marks, Locals, calls, stdout, Ghost>>

\* lines 131-137: the status lines, and the warning when the tier is High
PrintStatus ==
    /\ pc = "L131"
    /\ stdout' = stdout
                 \o << <<"status", current_time, location, concentration, risk_level>> >>
                 \o (IF risk_level = "High" THEN << <<"WARNING">> >> ELSE <<>>)
    /\ pc' = "L140"
    /\ steps' = Append(steps, "status")
    /\ UNCHANGED <<Aux, Instance, Env, Args, Marks, Locals, calls, Ghost>>

\* line 140: plt.pause(5) returns with the wall clock d seconds further
Pause(d) ==
    /\ pc = "L140"
    /\ clock + d >= 1
    /\ clock' = clock + d
    /\ pc' = "L106"
    /\ steps' = Append(steps, "wait")
    /\ UNCHANGED <<Aux, Instance, timeDefined, Args, Marks, Locals, calls, stdout, Ghost>>

\* lines 142-143
ExceptKeyboardInterrupt ==
    /\ pc = "L143"
    /\ stdout' = Append(stdout, <<"Monitoring stopped by user">>)
    /\ pc' = "L148"
    /\ UNCHANGED <<Aux, steps, Instance, Env, Args, Marks, Locals, calls, Ghost>>

\* lines 144-145
ExceptException ==
    /\ pc = "L145"
    /\ stdout' = Append(stdout, <<"Error during monitoring">>)
    /\ pc' = "L148"
    /\ UNCHANGED <<Aux, steps, Instance, Env, Args, Marks, Locals, calls, Ghost>>

\* line 148 with the guard len(self.readings) > 2: a buffer of one reading
\* is closed without being exported
FinallyTest_TwoReadings ==
    /\ pc = "L148"
    /\ pc' = IF Len(readings) > 2 THEN "L149" ELSE "L152"
    /\ UNCHANGED <<Aux, steps, Instance, Env, Args, Marks, Locals, calls, stdout, Ghost>>

\* line 148: if len(self.readings) > 1
FinallyTest ==
    /\ pc = "L148"
    /\ pc' = IF Len(readings) > 1 THEN "L149" ELSE "L152"
    /\ UNCHANGED <<Aux, steps, Instance, Env, Args, Marks, Locals, calls, stdout, Ghost>>

\* lines 149-150 with export_to_csv, lines 73-82: the DataFrame constructor
\* raises ValueError on columns of different lengths, and the exception
\* leaves the finally block
Export ==
    /\ pc = "L149"
    /\ exportCalls' = exportCalls + 1
    /\ IF FrameOk
       THEN /\ files' = Append(files, ExportRows)
            /\ stdout' = Append(stdout, <<"Data exported">>)
            /\ pc' = "L152"
            /\ written' = written + 1
            /\ UNCHANGED <<pending, raises>>
       ELSE /\ pc' = "raised"
            /\ pending' = "ValueError"
            /\ raises' = Append(raises, "ValueError")
            /\ UNCHANGED <<files, stdout, written>>
    /\ UNCHANGED <<Aux, steps, readings, timestamps, dbOpen, dbRows, dbPending, figOpen,
                   ani, Env, Args, base, Locals, calls, exitPath, faultSite,
                   closeCalls, pltCloseCalls, nticks, negTicks>>

\* line 152: close() drops the rows of an uncommitted transaction
CloseDb ==
    /\ pc = "L152"
    /\ dbOpen' = FALSE
    /\ dbPending' = <<>>
    /\ closeCalls' = closeCalls + 1
    /\ pc' = "L153"
    /\ UNCHANGED <<Aux, steps, readings, timestamps, dbRows, figOpen, ani, files, Env,
                   Args, Marks, Locals, calls, stdout, pending, exitPath, faultSite,
                   exportCalls, pltCloseCalls, nticks, negTicks>>

\* line 153
PrintEnded ==
    /\ pc = "L153"
    /\ stdout' = Append(stdout, <<"Monitoring session ended">>)
    /\ pc' = "L154"
    /\ UNCHANGED <<Aux, steps, Instance, Env, Args, Marks, Locals, calls, Ghost>>

\* line 154: plt.close(); then the call returns, or an exception raised in a
\* handler propagates
ClosePlot ==
    /\ pc = "L154"
    /\ figOpen' = FALSE
    /\ pltCloseCalls' = pltCloseCalls + 1
    /\ pc' = IF pending = None THEN "returned" ELSE "raised"
    /\ UNCHANGED <<Aux, steps, readings, timestamps, dbOpen, dbRows, dbPending, ani, files,
                   Env, Args, Marks, Locals, calls, stdout, pending, exitPath,
                   faultSite, exportCalls, closeCalls, nticks, negTicks>>

(***************************************************************************)
(* Exceptions                                                              *)
(***************************************************************************)
\* Ctrl+C: KeyboardInterrupt is raised before the statement at pc runs.  In
\* the try body it is caught at line 142; before the try and inside the
\* finally block it propagates at once; inside a handler it propagates
\* after the finally block has run.
Interrupt ==
    /\ raises' = Append(raises, "KeyboardInterrupt")
    /\ \/ /\ pc \in TryPcs
          /\ pc' = "L143"
          /\ exitPath' = "interrupt"
          /\ UNCHANGED pending
       \/ /\ pc \in SetupPcs
          /\ pc' = "raised"
          /\ exitPath' = "setup"
          /\ pending' = "KeyboardInterrupt"
       \/ /\ pc \in HandlerPcs
          /\ pc' = "L148"
          /\ pending' = "KeyboardInterrupt"
          /\ UNCHANGED exitPath
       \/ /\ pc \in FinallyPcs
          /\ pc' = "raised"
          /\ pending' = "KeyboardInterrupt"
          /\ UNCHANGED exitPath
    /\ UNCHANGED <<Aux, steps, Instance, Env, Args, base, written, Locals, calls, stdout, faultSite,
                   exportCalls, closeCalls, pltCloseCalls, nticks, negTicks>>

\* an Exception raised by a collaborator call of the try body (sensor,
\* INSERT, commit, plot), caught at line 144
Fault ==
    /\ pc \in FaultPcs
    /\ faultSite' = pc
    /\ exitPath' = "fault"
    /\ raises' = Append(raises, "Exception")
    /\ pc' = "L145"
    /\ UNCHANGED <<Aux, steps, Instance, Env, Args, base, written, Locals, calls, stdout, pending,
                   exportCalls, closeCalls, pltCloseCalls, nticks, negTicks>>

\* an Exception raised by FuncAnimation, plt.show or plt.pause(0.1), before
\* the try statement
SetupFault ==
    /\ pc \in {"L92", "L102"}
    /\ pc' = "raised"
    /\ pending' = "Exception"
    /\ raises' = Append(raises, "Exception")
    /\ exitPath' = "setup"
    /\ UNCHANGED <<Aux, steps, Instance, Env, Args, base, written, Locals, calls, stdout, faultSite,
                   exportCalls, closeCalls, pltCloseCalls, nticks, negTicks>>

\* update_plot driven by a timer thread of its own: it can run at any
\* statement of the loop body
update_plot_OwnThread ==
    /\ pc \in TryPcs \cup {"L102"}
    /\ plotAt' = plotAt \cup {pc}
    /\ IF Len(timestamps) > 1
         THEN LET current == timestamps[Len(timestamps)] - timestamps[2]
                  plot_times == [i \in 1..(Len(timestamps) - 1) |->
                                     timestamps[i + 1] - timestamps[2]]
                  current_max == MaxOfList(readings)
              IN  view' = [xlim |-> <<Max2(0, current - ViewWindow),
                                      current + ViewMargin>>,
                           line |-> <<plot_times, Slice1(readings)>>,
                           ylim |-> IF current_max > view.ylim[2]
                                        THEN <<0, (current_max * 11) \div 10>>
                                        ELSE view.ylim]
         ELSE UNCHANGED view
    /\ UNCHANGED <<steps, tbase, durationInput, Instance, Env, Args, Locals,
                   Ghost, Marks, pc, calls, stdout>>

\* df.to_csv cannot write the file: the OSError leaves the finally block
\* lines 56-71: update_plot, called by the animation's timer from the event
\* loop, which the program runs only inside plt.show / plt.pause
update_plot ==
    /\ pc \in {"L102", "L140"}
    /\ plotAt' = plotAt \cup {pc}
    /\ IF Len(timestamps) > 1
         THEN LET current == timestamps[Len(timestamps)] - timestamps[2]
                  plot_times == [i \in 1..(Len(timestamps) - 1) |->
                                     timestamps[i + 1] - timestamps[2]]
                  current_max == MaxOfList(readings)
              IN  view' = [xlim |-> <<Max2(0, current - ViewWindow),
                                      current + ViewMargin>>,
                           line |-> <<plot_times, Slice1(readings)>>,
                           ylim |-> IF current_max > view.ylim[2]
                                        THEN <<0, (current_max * 11) \div 10>>
                                        ELSE view.ylim]
         ELSE UNCHANGED view
    /\ UNCHANGED <<steps, tbase, durationInput, Instance, Env, Args, Locals,
                   Ghost, Marks, pc, calls, stdout>>

ExportFault ==
    /\ pc = "L149"
    /\ exportCalls' = exportCalls + 1
    /\ pc' = "raised"
    /\ pending' = "OSError"
    /\ raises' = Append(raises, "OSError")
    /\ UNCHANGED <<Aux, steps, Instance, Env, Args, base, written, Locals, calls, stdout, exitPath,
                   faultSite, closeCalls, pltCloseCalls, nticks, negTicks>>

(***************************************************************************)
(* Specifications                                                          *)
(***************************************************************************)
Step ==
    \/ StartTime \/ CreateAnimation \/ ShowWindow \/ LoopTest
    \/ Classify \/ ReadNow \/ AppendReading \/ AppendTimestamp
    \/ Insert \/ Commit \/ PrintStatus
    \/ ExceptKeyboardInterrupt \/ ExceptException
    \/ FinallyTest \/ Export \/ CloseDb \/ PrintEnded \/ ClosePlot
    \/ Interrupt \/ Fault \/ SetupFault \/ ExportFault

Next ==
    \/ \E d \in Durations : Call(d)
    \/ \E c \in Samples : Len(readings) <= MaxReadings /\ Sample(c)
    \/ \E d \in PauseAdvances : Pause(d)
    \/ update_plot
    \/ Step

Spec == Init /\ [][Next]_vars

\* the program as main() runs it: one instance, one call, the duration typed
NextMain ==
    \/ \E typed \in DurationInputs : main(typed)
    \/ \E c \in Samples : Len(readings) <= MaxReadings /\ Sample(c)
    \/ \E d \in PauseAdvances : Pause(d)
    \/ update_plot
    \/ Step

SpecMain == Init /\ [][NextMain]_vars

\* calculate_risk_level on its own: the first tick of a call, at line 109,
\* with the sample drawn from TestConcentrations
InitClassify ==
    /\ pc = "L109"
    /\ timeDefined = TRUE
    /\ clock = ClockStart
    /\ calls = 1
    /\ duration_minutes = 1
    /\ start_time = ClockStart
    /\ end_time = ClockStart + SecondsPerMinute
    /\ concentration \in TestConcentrations
    /\ risk_level = None /\ current_time = None
    /\ readings = <<0>>
    /\ timestamps = <<0>>
    /\ dbOpen = TRUE /\ dbRows = <<>> /\ dbPending = <<>>
    /\ figOpen = TRUE
    /\ ani = [frames |-> SecondsPerMinute \div TickPeriod, interval |-> 1000 * TickPeriod]
    /\ files = <<>>
    /\ stdout = << <<"Starting real-time monitoring">>,
                    <<"Press Ctrl+C to stop monitoring">> >>
    /\ pending = None /\ exitPath = None /\ faultSite = None
    /\ exportCalls = 0 /\ closeCalls = 0 /\ pltCloseCalls = 0
    /\ nticks = 1
    /\ negTicks = IF concentration < 0 THEN 1 ELSE 0
    /\ base = 1 /\ written = 0 /\ raises = <<>>
    /\ view = [xlim |-> <<0, InitialXRight>>, ylim |-> <<0, InitialYTop>>,
               line |-> << <<0>>, <<0>> >>]
    /\ plotAt = {} /\ steps = <<"sample">> /\ tbase = 1 /\ durationInput = None

NextClassify == Classify

SpecClassify == InitClassify /\ [][NextClassify]_vars

\* the 12-tick scenario: a one-minute call, the mock sensor Scenario, and a
\* clock that advances by the tick period across every plt.pause(5)
NextScenario ==
    \/ Call(1)
    \/ nticks <= Len(Scenario) /\ Sample(Scenario[nticks])
    \/ Pause(TickPeriod)
    \/ Step

SpecScenario == Init /\ [][NextScenario]_vars

\* the one session of a new instance on a clock that every plt.pause(5)
\* advances by at least the tick period, with one sensor value; ProgramStep
\* is a step of the program itself, as opposed to an interrupt or a fault
\* coming from outside
TimedSamples == {20000}
TimedAdvances == {d \in PauseAdvances : d >= TickPeriod}

ProgramStep ==
    \/ StartTime \/ CreateAnimation \/ ShowWindow \/ LoopTest
    \/ \E c \in TimedSamples : Sample(c)
    \/ Classify \/ ReadNow \/ AppendReading \/ AppendTimestamp
    \/ Insert \/ Commit \/ PrintStatus
    \/ \E d \in TimedAdvances : Pause(d)
    \/ ExceptKeyboardInterrupt \/ ExceptException
    \/ FinallyTest \/ Export \/ CloseDb \/ PrintEnded \/ ClosePlot

NextTimed ==
    \/ \E d \in Durations : calls = 0 /\ Call(d)
    \/ \E c \in TimedSamples : Sample(c)
    \/ \E d \in TimedAdvances : Pause(d)
    \/ update_plot
    \/ Step

SpecTimed == Init /\ [][NextTimed]_vars

(***************************************************************************)
(* Claims                                                                  *)
(***************************************************************************)
Tiers == {"Low", "Medium", "High"}

\* C3: for every concentration c >= 0, calculate_risk_level(c) is Low iff
\* c < 0.01, Medium iff 0.01 <= c < 0.1 and High iff c >= 0.1; 0.01 maps to
\* Medium, 0.1 maps to High, and the result is one of the three tiers.
C3_RiskTiers ==
    (pc = "L110" /\ concentration >= 0) =>
        /\ risk_level \in Tiers
        /\ risk_level = "Low" <=> concentration < MediumThreshold
        /\ risk_level = "Medium" <=>
              (MediumThreshold <= concentration /\ concentration < HighThreshold)
        /\ risk_level = "High" <=> concentration >= HighThreshold
        /\ concentration = MediumThreshold => risk_level = "Medium"
        /\ concentration = HighThreshold => risk_level = "High"

\* a sample exactly on the lower threshold has been classified
C3_Witness ==
    pc = "L110" /\ concentration = MediumThreshold /\ risk_level = "Medium"

\* the call is over: it returned, or an exception left it
Ended == pc \in {"returned", "raised"}
\* the three ways out of the sampling loop: the loop test failed, a
\* KeyboardInterrupt or an Exception was raised in the try body
LoopExits == {"timeout", "interrupt", "fault"}
\* nothing else happened on the way out: the only exceptions of the call
\* are the one that ended the loop, if any, and a ValueError of the
\* DataFrame constructor (no second Ctrl+C in a handler or in the finally
\* block, no failure to write the CSV file)
NoFurtherEvent ==
    Cardinality({i \in 1 .. Len(raises) : raises[i] # "ValueError"})
        <= (IF exitPath = "timeout" THEN 0 ELSE 1)
\* the rows of the CSV file the current call wrote, none if it wrote no file
RowsWritten == IF written = 0 THEN <<>> ELSE files[Len(files)]
\* the rows the INSERT statements have added to asbestos_readings
Inserted == dbRows \o dbPending
\* every sample of the call, and every reading in the buffer, is a value
\* np.random.uniform(0, 0.2) can return
SamplesInRange ==
    /\ negTicks = 0
    /\ \A i \in 2 .. Len(readings) :
          SensorLow <= readings[i] /\ readings[i] < SensorHigh
NonDecreasing(s) ==
    \A i, j \in 2 .. Len(s) : i < j => s[i] <= s[j]

\* C1: a call that records at least one reading invokes export_to_csv exactly
\* once and db_connection.close() exactly once, whether the loop ended by
\* timeout, by KeyboardInterrupt or by an exception raised inside the loop.
C1_ExportOnceCloseOnce ==
    (/\ Ended /\ Len(readings) > base /\ exitPath \in LoopExits
     /\ NoFurtherEvent /\ SamplesInRange)
        => (exportCalls = 1 /\ closeCalls = 1)

\* C2: db_connection.close() and plt.close() are both executed on every exit
\* path of real_time_monitoring, a fault in the set-up statements before the
\* loop and a fault of export_to_csv included.
C2_ReleasedOnEveryExit ==
    (Ended /\ calls >= 1) => (closeCalls = 1 /\ pltCloseCalls = 1)

\* C4: a tick with a negative sample appends nothing to the buffer and writes
\* no row to the database (and the loop goes on with the next tick).
C4_NegativeSampleRejected ==
    /\ \A i \in 2 .. Len(readings) : readings[i] >= 0
    /\ \A i \in 1 .. Len(Inserted) : Inserted[i][3] >= 0

\* C5: a failed INSERT or commit does not end the session (the loop runs on
\* until timeout or cancellation), and the reading whose write failed is in
\* the buffer and in the export written at the end of the session.
C5_WriteFailureDoesNotEndSession ==
    /\ (faultSite \in {"L117", "L128"} /\ SamplesInRange) => exitPath # "fault"
    /\ (Ended /\ faultSite \in {"L117", "L128"} /\ NoFurtherEvent) =>
          /\ readings[Len(readings)] = concentration
          /\ written = 1
          /\ RowsWritten[Len(RowsWritten)][3] = concentration

\* C6: a KeyboardInterrupt delivered at any point of a tick, between the two
\* appends and during the database write included, ends with the export of
\* every reading recorded so far written and the database connection closed.
C6_InterruptFlushes ==
    (Ended /\ exitPath = "interrupt" /\ NoFurtherEvent /\ SamplesInRange) =>
        /\ closeCalls = 1
        /\ ~dbOpen
        /\ Len(readings) > 1 =>
              (exportCalls = 1 /\ Len(RowsWritten) = Len(readings) - 1)

\* C7: after any sequence of ticks and any termination path the export holds
\* len(readings) - 1 rows, in buffer order, and the seed entry (reading 0 at
\* timestamp 0) is in no exported row and in no inserted row.
C7_ExportMatchesBuffer ==
    /\ (Ended /\ exitPath \in LoopExits /\ NoFurtherEvent /\ SamplesInRange) =>
          /\ Len(RowsWritten) = Len(readings) - 1
          /\ \A i \in 1 .. Len(RowsWritten) :
                /\ RowsWritten[i][1] = timestamps[i + 1]
                /\ RowsWritten[i][3] = readings[i + 1]
    /\ \A k \in 1 .. Len(files) : \A i \in 1 .. Len(files[k]) : files[k][i][1] # 0
    /\ \A i \in 1 .. Len(Inserted) : Inserted[i][1] # 0

\* C8: export_to_csv is invoked at most once per call and only when the buffer
\* holds a reading besides the seed; a call that ends with no reading (a
\* duration of 0 or less, an interrupt before the first append) writes no
\* file and still closes the database connection.
C8_ExportGuardAndClose ==
    /\ exportCalls <= 1
    /\ exportCalls = 1 => Len(readings) > 1
    /\ (Ended /\ calls >= 1 /\ timeDefined /\ Len(readings) = 1) =>
          (written = 0 /\ closeCalls = 1)

\* C9: the newest reading sits at the last buffer position, and the
\* timestamps of the entries after the seed are non-decreasing: for all
\* i < j past the seed, timestamps[i] <= timestamps[j].
C9_OrderedBuffer ==
    /\ pc \in {"L114", "L117", "L128", "L131", "L140"} =>
          readings[Len(readings)] = concentration
    /\ pc \in {"L117", "L128", "L131", "L140"} =>
          timestamps[Len(timestamps)] = current_time
    /\ SamplesInRange => NonDecreasing(timestamps)

\* C10: a call of D minutes that ends by timeout has made D*60/5 ticks; the
\* readings recorded are the ticks less those with a negative sample, each
\* with the tier of its concentration; one export with that many rows is
\* written and the connection is closed once (12 ticks, one of them
\* negative: 11 readings and 11 rows).
C10_ScenarioTotals ==
    (pc = "returned" /\ calls = 1 /\ exitPath = "timeout") =>
        /\ nticks = (duration_minutes * SecondsPerMinute) \div TickPeriod
        /\ Len(readings) - 1 = nticks - negTicks
        /\ exportCalls = 1 /\ written = 1
        /\ Len(RowsWritten) = nticks - negTicks
        /\ \A i \in 1 .. Len(RowsWritten) :
              RowsWritten[i][4] = calculate_risk_level(RowsWritten[i][3])
        /\ closeCalls = 1

\* the current call has printed the line t
HasLine(t) == \E i \in 1 .. Len(stdout) : stdout[i] = <<t>>
\* the call has left the loop: a handler or the finally block is running
ShutdownBegun == pc \in HandlerPcs \cup FinallyPcs

TickOrder ==
    <<"sample", "classify", "now", "append_reading", "append_timestamp",
      "insert", "commit", "status", "wait">>
IsPrefix(s, t) == Len(s) <= Len(t) /\ SubSeq(t, 1, Len(s)) = s

\* C12: the steps a tick has taken are always an initial part of the fixed
\* order sample, classify, (timestamp,) append to the buffer, INSERT, commit,
\* status output, plt.pause wait; a tick begins with none of them taken, and
\* the loop test after a tick is evaluated only when that tick has taken all
\* of them; update_plot has only run inside plt.show/plt.pause (lines
\* 102-103 and 140), never between a tick's append and its commit.
C12_TickOrder ==
    /\ IsPrefix(steps, TickOrder)
    /\ pc = "L108" => steps = <<>>
    /\ (pc = "L106" /\ nticks >= 1) => steps = TickOrder
    /\ (pc = "L140") => steps = SubSeq(TickOrder, 1, Len(TickOrder) - 1)
    /\ plotAt \subseteq {"L102", "L140"}
    /\ plotAt \cap {"L114", "L117", "L128"} = {}

\* a whole tick has run, with update_plot called during its plt.pause
C12_Witness ==
    /\ pc = "L106" /\ nticks = 1 /\ steps = TickOrder
    /\ "L140" \in plotAt
    /\ Len(dbRows) = 1 /\ view.line[2] = Slice1(readings)

\* C13: the buffer is append-only: every step leaves the entries readings and
\* timestamps already hold unchanged and in place and adds at most one entry
\* at the end; a tick that has run its two appends (lines 113-114) has added
\* exactly one entry to each list, so after k such ticks of a call each list
\* is k longer than when the call began; update_plot and export_to_csv leave
\* both lists unchanged.
C13_AppendOnly ==
    [][ /\ IsPrefix(readings, readings') /\ IsPrefix(timestamps, timestamps')
        /\ Len(readings') <= Len(readings) + 1
        /\ Len(timestamps') <= Len(timestamps) + 1
        /\ (pc' \in {"L117", "L128", "L131", "L140"} \/
                (pc' = "L106" /\ nticks' >= 1)) =>
              /\ Len(readings') - base' = nticks'
              /\ Len(timestamps') - tbase' = nticks'
        /\ pc' \in {"L108", "L109", "L110", "L113"} =>
              /\ Len(readings') - base' = nticks' - 1
              /\ Len(timestamps') - tbase' = nticks' - 1
        /\ (plotAt' # plotAt \/ view' # view \/ exportCalls' # exportCalls
                \/ files' # files) =>
              (readings' = readings /\ timestamps' = timestamps)
      ]_vars

\* two ticks have appended, update_plot has drawn them and export_to_csv has
\* written them, and the buffer still holds the two readings in order
C13_Witness ==
    /\ pc = "returned" /\ calls = 1 /\ nticks = 2 /\ written = 1
    /\ Len(readings) = 3 /\ Len(timestamps) = 3
    /\ readings[2] # readings[3]
    /\ "L140" \in plotAt /\ view.line[2] = Slice1(readings)
    /\ Len(files[1]) = 2

\* C14: the tier of every database row (committed or still pending), of every
\* status line and of every exported row is calculate_risk_level of the
\* concentration in that same row or line, and from the classification to the
\* end of the tick the local risk_level is calculate_risk_level of the
\* tick's concentration, which is the reading the tick appends.
C14_TierFromConcentration ==
    /\ \A i \in 1 .. Len(Inserted) :
          Inserted[i][4] = calculate_risk_level(Inserted[i][3])
    /\ \A i \in 1 .. Len(stdout) :
          stdout[i][1] = "status" =>
              stdout[i][5] = calculate_risk_level(stdout[i][4])
    /\ \A k \in 1 .. Len(files) : \A i \in 1 .. Len(files[k]) :
          files[k][i][4] = calculate_risk_level(files[k][i][3])
    /\ pc \in {"L110", "L113", "L114", "L117", "L128", "L131", "L140"} =>
          risk_level = calculate_risk_level(concentration)
    /\ pc \in {"L114", "L117", "L128", "L131", "L140"} =>
          readings[Len(readings)] = concentration

\* a session of two readings of different tiers, one of them High, has
\* committed, printed and exported both
C14_Witness ==
    /\ pc = "returned" /\ calls = 1 /\ written = 1
    /\ Len(dbRows) = 2 /\ Len(files[1]) = 2
    /\ dbRows[1][4] = "Medium" /\ dbRows[2][4] = "High"
    /\ files[1][2][4] = "High"
    /\ \E i \in 1 .. Len(stdout) :
          stdout[i][1] = "status" /\ stdout[i][5] = "High"

\* C15: a duration typed at the prompt of main() that is unparsable, zero or
\* negative never reaches the session as typed: real_time_monitoring is only
\* started with a positive number of minutes, the default of 60 in those
\* cases.
C15_DurationPositive ==
    calls >= 1 =>
        /\ duration_minutes >= 1
        /\ (~IsIntegerText(InputOrDefault(durationInput)) \/
                int(InputOrDefault(durationInput)) <= 0) =>
              duration_minutes = DefaultDuration

\* the number of ticks that fit into the planned duration
TickBudget ==
    Max2(0, (duration_minutes * SecondsPerMinute) \div TickPeriod)

\* the position of pc in p, a sequence of positions
IndexIn(p) == CHOOSE i \in 1 .. Len(p) : p[i] = pc
LoopBody ==
    <<"L108", "L109", "L110", "L113", "L114", "L117", "L128", "L131", "L140">>
\* how far the call has come: the setup, then ten positions for every tick
\* (the loop test counts as the first position of the next tick), then the
\* handlers and the finally block, then the end
Progress ==
    IF pc \in SetupPcs THEN IndexIn(<<"L88", "L92", "L102">>)
    ELSE IF pc = "L106" THEN 3 + (nticks + 1) * (Len(LoopBody) + 1)
    ELSE IF pc \in TryPcs THEN 3 + nticks * (Len(LoopBody) + 1) + IndexIn(LoopBody)
    ELSE 3 + (TickBudget + 2) * (Len(LoopBody) + 1)
           + (IF pc \in HandlerPcs THEN 1
              ELSE IF pc \in FinallyPcs
                  THEN 1 + IndexIn(<<"L148", "L149", "L152", "L153", "L154">>)
              ELSE 7)

\* C16: no sample is taken once the clock has reached end_time (start_time +
\* duration * 60); on a clock that advances by at least the tick period
\* across every plt.pause(5), a call never makes more than duration * 60 / 5
\* ticks (none for a duration of zero or less), the loop test after the last
\* of them fails, and a call that leaves the loop by the loop test does so
\* with the clock at or past end_time; the call reaches its end: until then
\* a step of the program is always possible, and every step that moves pc
\* moves the call forward in the bounded order setup, ticks, shutdown, end.
C16_EndsOnTime ==
    /\ [](pc = "L108" => clock < end_time)
    /\ [](calls >= 1 => nticks <= TickBudget)
    /\ []((pc = "L106" /\ nticks >= TickBudget) => clock >= end_time)
    /\ [](exitPath = "timeout" => clock >= end_time)
    /\ []((calls >= 1 /\ ~Ended) => ENABLED ProgramStep)
    /\ [][(calls' = calls /\ pc' # pc) =>
              (Progress' > Progress /\
               Progress' <= 3 + (TickBudget + 2) * (Len(LoopBody) + 1) + 7)]_vars

\* a one-minute session with the clock advancing by exactly the tick period
\* has made all of its twelve ticks and returned
C16_Witness ==
    /\ pc = "returned" /\ exitPath = "timeout" /\ raises = <<>>
    /\ duration_minutes = 1 /\ nticks = 12 /\ nticks = TickBudget
    /\ clock = end_time

\* the "WARNING" lines the current call has printed, and the High readings it
\* has appended to the buffer
WarningsPrinted ==
    Cardinality({i \in 1 .. Len(stdout) : stdout[i] = <<"WARNING">>})
HighAppended ==
    Cardinality({i \in (base + 1) .. Len(readings) :
                    calculate_risk_level(readings[i]) = "High"})

\* C17: a high-risk warning is printed for a tick exactly when its reading is
\* High, for every tick that appended its reading, a tick whose database
\* write failed included: when a call has left the loop by the loop test or
\* by a failed write (and nothing else happened), it has printed as many
\* warnings as it appended High readings.
C17_WarningIffHigh ==
    (/\ pc \in FinallyPcs \cup {"returned", "raised"}
     /\ exitPath \in {"timeout", "fault"}
     /\ exitPath = "fault" => faultSite \in {"L117", "L128"}
     /\ NoFurtherEvent /\ SamplesInRange) =>
        WarningsPrinted = HighAppended

\* C18: readings and timestamps have the same length in every state in which
\* export_to_csv (line 149) or update_plot (inside plt.show/plt.pause, lines
\* 102-103 and 140) can read them, whatever way the loop was left.
C18_ListsAligned ==
    (pc \in {"L149", "L102", "L140"} /\ SamplesInRange /\ Len(raises) <= 1) =>
        Len(readings) = Len(timestamps)

\* C19: in every state of the program the committed rows of
\* asbestos_readings are, in order, the rows of the first buffer entries
\* after the sentinel; there are at most as many committed rows as buffered
\* readings and at least that number minus one; and when the loop condition
\* is evaluated the two numbers are equal.
C19_RowsPrefixOfBuffer ==
    /\ Len(dbRows) <= Len(readings) - 1
    /\ Len(dbRows) >= Len(readings) - 2
    /\ \A i \in 1 .. Len(dbRows) :
          /\ i + 1 <= Len(timestamps)
          /\ dbRows[i] = << timestamps[i + 1], location, readings[i + 1],
                            calculate_risk_level(readings[i + 1]) >>
    /\ pc = "L106" => Len(dbRows) = Len(readings) - 1

\* the second tick has appended its reading and not yet committed its row:
\* one committed row, two buffered readings
C19_Witness ==
    /\ pc = "L128" /\ nticks = 2
    /\ Len(dbRows) = 1 /\ Len(dbPending) = 1 /\ Len(readings) = 3
    /\ dbRows[1][3] = readings[2] /\ readings[2] # readings[3]

\* C20: once db_connection.close() has run, no later call on the same
\* instance appends a reading to the buffer or attempts an INSERT or a commit
\* on the closed connection, and a file written by export_to_csv holds only
\* readings appended by the call that wrote it.
C20_NothingAfterClose ==
    [][ /\ (~dbOpen /\ negTicks' = 0) =>
              /\ readings' = readings /\ timestamps' = timestamps
              /\ pc' \notin {"L117", "L128"}
        /\ (Len(files') > Len(files) /\ SamplesInRange /\ Len(raises) <= 1) =>
              Len(files'[Len(files')]) <= Len(readings) - base
      ]_vars

====
